---- MODULE Spec2Model ----
(***************************************************************************)
(* The event-processing pipeline of z316_email_purchase (src/main.py):     *)
(* process_webhook_payload and the functions it calls.  The ERP HTTP API,  *)
(* the warehouse (BigQuery) and the email provider (SendGrid) are the      *)
(* environment: every answer they can give is chosen with \E.              *)
(*                                                                         *)
(* Time values are stored in half time-units, so that the 2.5             *)
(* multiplier and the 187.5 cap of make_api_call's backoff are integers.   *)
(* An exception is its type name.  Of the text of make_api_call's log     *)
(* lines only the URL they repeat is kept, split at the '?token=' marker.  *)
(***************************************************************************)
EXTENDS Integers, Sequences, FiniteSets, TLC

VARIABLES
    TEST_MODE,        \* main.py:22, static configuration
    payload,          \* the decoded webhook payload
    pc,               \* position of the invocation
    nfce_id,          \* process_webhook_payload local
    gen_error,        \* the exception caught at line 100, None when there was none
    client_email,     \* process_webhook_payload local
    nota_fiscal_url,  \* process_webhook_payload local
    api,              \* the running make_api_call: endpoint, attempts, responses, sleeps, log
    apiResult,        \* what the finished make_api_call gave its caller
    requested,        \* ERP endpoints that received at least one HTTP request
    purchase,         \* the running get_purchase_details: attempts, sleeps
    queried,          \* warehouse queries executed, by kind
    parts,            \* aggregate_email_data locals: the four query results, and
                      \* (returned) what each external read answered
    email_data,       \* the payload built by aggregate_email_data
    sg,               \* send_email: whether called, retry_count, provider responses, sleeps
    caught,           \* exception caught by process_webhook_payload's outer handlers
    escaped,          \* exception that left process_webhook_payload
    lookup,           \* get_client_email's local: the result of its warehouse query
    counts,           \* how many times each function was entered / each query was run
    TINY_ERP_API_TOKEN,   \* main.py:29, process-wide global
    SENDGRID_API_TOKEN,   \* main.py:30, process-wide global
    secrets,          \* what the secret store holds for the two secret names
    inv               \* the invocations of trigger_function running in the process

vars == << TEST_MODE, payload, pc, nfce_id, gen_error, client_email, nota_fiscal_url, api,
           apiResult, requested, purchase, queried, parts, email_data, sg,
           caught, escaped, lookup, counts,
           TINY_ERP_API_TOKEN, SENDGRID_API_TOKEN, secrets, inv >>

\* The state of one run of process_webhook_payload.
pipeVars == << TEST_MODE, payload, pc, nfce_id, gen_error, client_email, nota_fiscal_url,
               api, apiResult, requested, purchase, queried, parts, email_data, sg,
               caught, escaped, lookup, counts >>

\* The credentials of the process and the invocations that share them.
credVars == << TINY_ERP_API_TOKEN, SENDGRID_API_TOKEN, secrets, inv >>

-----------------------------------------------------------------------------
(* Values *)

\* Python's None, and an absent dictionary key.
None == "None"

\* Python truthiness of a string-or-None value ("if not x").
Falsy(x) == x \in {None, ""}

\* A duration of x time-units, stored in half time-units.
Units(x) == 2 * x

TEST_EMAIL == "rodrigo@brunale.com"

Max(a, b) == IF a >= b THEN a ELSE b
Min(a, b) == IF a <= b THEN a ELSE b

RECURSIVE Pow2(_)
Pow2(n) == IF n <= 0 THEN 1 ELSE 2 * Pow2(n - 1)

\* Sequences over S of length 0..n.
SeqUpTo(S, n) == UNION { [1..k -> S] : k \in 0..n }

\* A dictionary with no keys.
EmptyDict == [k \in {} |-> None]

\* The functions and queries whose executions are counted.
Counted == {"gerar", "contatos", "link", "email", "get_purchase_details",
            "checkins", "quarter", "lifetime", "send_email"}
NoCounts == [k \in Counted |-> 0]
Bump(c, k) == [c EXCEPT ![k] = @ + 1]

\* A number, or None where a number is expected (a SQL NULL).
Num(n) == [isNone |-> FALSE, v |-> n]
NoneNum == [isNone |-> TRUE, v |-> 0]

-----------------------------------------------------------------------------
(* The webhook payload: payload['dados'], its 'id' and its 'cliente'.      *)

DadosIds == {None, "", "123"}
CpfCnpjs == {None, "111"}

Payloads ==
    { [hasDados |-> FALSE, id |-> None, hasCliente |-> FALSE, cpfCnpj |-> None] }
    \cup
    { [hasDados |-> TRUE, id |-> i, hasCliente |-> FALSE, cpfCnpj |-> None] :
        i \in DadosIds }
    \cup
    { [hasDados |-> TRUE, id |-> i, hasCliente |-> TRUE, cpfCnpj |-> c] :
        i \in DadosIds, c \in CpfCnpjs }

\* payload['dados'].get('id')
DadosId(p) == p.id

\* cliente_info.get('nome', 'Unknown Client')
ClienteNome(p) == IF p.hasCliente THEN "Ana" ELSE "Unknown Client"

\* payload['dados'].get('cliente', {}).get('cpfCnpj')
\* (variant: .get('cpfCnpj', ''), a missing tax id reads as an empty one)
ClienteCpfCnpjDefaultEmpty(p) ==
    IF p.hasCliente /\ p.cpfCnpj # None THEN p.cpfCnpj ELSE ""
ClienteCpfCnpj(p) == IF p.hasCliente THEN p.cpfCnpj ELSE None

-----------------------------------------------------------------------------
(* The ERP API gateway: make_api_call and validate_json_payload.           *)

Endpoints == {"gerar", "contatos", "link"}

\* What the endpoint's JSON body carries where its caller reads it:
\*   gerar    : retorno.registros.registro.idNotaFiscal, "NoKey" when registro
\*              has no idNotaFiscal, None when the path to registro is absent
\*   link     : retorno.link_nfe, None when absent
\*   contatos : the first contact's email, "NoEmail" when it has none,
\*              None when there are no contacts
Bodies(ep) ==
    CASE ep = "gerar"    -> {None, "NoKey", "", "55"}
      [] ep = "link"     -> {None, "", "http://x/55"}
      [] ep = "contatos" -> {None, "NoEmail", "erp@x.com"}

\* A failure of requests.get or raise_for_status whose message names the
\* URL (HTTPError "... for url: <url>", ConnectionError "... with url: ..."),
\* and one whose message does not (a read timeout).
TransportError == [http |-> "error", status |-> None, codigo_erro |-> "", body |-> None]
Timeout == [http |-> "timeout", status |-> None, codigo_erro |-> "", body |-> None]

\* requests.get(url): a transport/HTTP failure, or a JSON envelope with
\* retorno.status_processamento, retorno.codigo_erro and the endpoint's body.
Responses(ep) ==
    { TransportError, Timeout }
    \cup { [http |-> "ok", status |-> s, codigo_erro |-> "", body |-> b] :
             s \in {"3", None}, b \in Bodies(ep) }
    \cup { [http |-> "ok", status |-> "2", codigo_erro |-> "", body |-> None] }
    \cup { [http |-> "ok", status |-> "1", codigo_erro |-> c, body |-> None] :
             c \in {"", "1", "2"} }

\* validate_json_payload: the exception it raises, None when it returns.
\* retorno.erros is read only for the exception's message (lines 171-172)
\* and is taken as the ERP sends it, a list of {erro: text}.
validate_json_payload(json_data) ==
    IF json_data.status = "3" THEN None
    ELSE IF json_data.status = "2" THEN "ValidationError"
    ELSE IF json_data.status = "1"
         THEN IF json_data.codigo_erro = "1" THEN "InvalidTokenError"
              ELSE "RetryableError"
    ELSE None

\* One execution of make_api_call's body: the exception raised, or None.
ApiAttemptOutcome(r) ==
    IF r.http \in {"error", "timeout"} THEN "RequestException"
    ELSE validate_json_payload(r)

\* retry=retry_if_exception_type((RequestException, RetryableError))
\* (variant: no retry= argument, tenacity retries on every exception)
ApiRetryAll(e) == e # None
ApiRetryIf(e) == e \in {"RequestException", "RetryableError"}

\* tenacity wait_exponential(multiplier, min, max), the wait after attempt
\* number n: multiplier * 2^(n-1), clamped to [min, max].
wait_exponential(multiplier, lo, hi, n) ==
    Max(Max(0, lo), Min(multiplier * Pow2(n - 1), hi))

\* stop=stop_after_attempt(4) of make_api_call
ApiStopAfterAttempt == 4
\* (variant: stop_after_attempt(5))
ApiStopsAtFive(n) == n >= ApiStopAfterAttempt + 1
ApiStops(n) == n >= ApiStopAfterAttempt

\* wait=wait_exponential(multiplier=2.5, min=30, max=187.5), in half units.
\* ApiWaitGeometric is the schedule that starts at min and multiplies by 2.5.
ApiWaitGeometric(n) ==
    LET RECURSIVE Grow(_, _)
        Grow(x, k) == IF k <= 1 THEN x ELSE Grow((x * 5) \div 2, k - 1)
    IN  Min(Grow(60, n), 375)
ApiWait(n) == wait_exponential(5, 60, 375, n)

\* The URL a caller builds (lines 183, 198, 215): what stands before the
\* '?token=' marker, and what follows it, the credential first.
Url(ep) == [before |-> ep, after |-> "credential"]

\* Line 141: url.split('?token=')[0]
Sanitize(url) == [before |-> url.before, after |-> None]

\* str(e) of the exception of an attempt, as far as it repeats the URL.
ExceptionText(r, url) ==
    IF r.http = "error" THEN url ELSE [before |-> None, after |-> None]

\* The log entries of one execution of make_api_call's body: line 142, and
\* line 152, 155 or 158 when it raises e.
AttemptLog(url, r, e) ==
    << [line |-> 142, text |-> Sanitize(url)] >>
    \o (IF e = None THEN << >>
        ELSE << [line |-> (CASE e = "RequestException" -> 152
                             [] e = "ValidationError" -> 155
                             [] OTHER -> 158),
                 text |-> ExceptionText(r, url)] >>)

ApiIdle == [ep |-> None, attempt |-> 0, responses |-> << >>, sleeps |-> << >>,
            log |-> << >>]
NoJson == [http |-> "none", status |-> None, codigo_erro |-> "", body |-> None]
NoResult == [raised |-> None, json |-> NoJson]

\* Entering make_api_call(url) for an endpoint.
BeginApiCall(ep) ==
    /\ api' = [ep |-> ep, attempt |-> 0, responses |-> << >>, sleeps |-> << >>,
               log |-> << >>]
    /\ apiResult' = NoResult
    /\ pc' = "api"

\* Where make_api_call returns to: its caller's continuation.
ReturnTo(ep) ==
    CASE ep = "gerar"    -> "gerar_ret"
      [] ep = "contatos" -> "contatos_ret"
      [] ep = "link"     -> "link_ret"

-----------------------------------------------------------------------------
(* process_webhook_payload's outer handlers (except KeyError / Exception): *)
(* what becomes of an exception e raised inside its try block.             *)

\* (variant: only the 'except KeyError' clause of line 131)
ProcessExceptKeyErrorOnly(e) ==
    IF e = "KeyError" THEN [caught |-> e, escaped |-> None]
    ELSE [caught |-> None, escaped |-> e]
ProcessExcept(e) == [caught |-> e, escaped |-> None]

\* An exception reaches the outer try of process_webhook_payload.
Raise(e) ==
    /\ caught' = ProcessExcept(e).caught
    /\ escaped' = ProcessExcept(e).escaped
    /\ pc' = "done"

\* process_webhook_payload returns.
Return ==
    /\ pc' = "done"
    /\ UNCHANGED << caught, escaped >>

-----------------------------------------------------------------------------
(* process_webhook_payload, lines 87-99: the payload checks, then          *)
(* generate_nfce builds its URL and enters make_api_call.                  *)

\* Lines 89-96: TRUE when the payload is processed further.
\* (variant: an empty id passes the check of line 94)
HasDadosIdNotNone(p) == p.hasDados /\ DadosId(p) # None
HasDadosId(p) == p.hasDados /\ ~Falsy(DadosId(p))

ProcessStart ==
    /\ pc = "start"
    /\ IF HasDadosId(payload)
       THEN /\ BeginApiCall("gerar")
            /\ UNCHANGED << caught, escaped >>
       ELSE /\ Return
            /\ UNCHANGED << api, apiResult >>
    /\ counts' = IF HasDadosId(payload) THEN Bump(counts, "gerar") ELSE counts
    /\ UNCHANGED lookup
    /\ UNCHANGED credVars
    /\ UNCHANGED << TEST_MODE, payload, nfce_id, gen_error, client_email, nota_fiscal_url,
                    requested, purchase, queried, parts, email_data, sg >>

-----------------------------------------------------------------------------
(* make_api_call, lines 137-159: one HTTP request, its classification and  *)
(* tenacity's decision: return, raise, or sleep and run the body again.    *)

MakeApiCallAttempt ==
    /\ pc = "api"
    /\ \E r \in Responses(api.ep) :
         LET n == api.attempt + 1
             e == ApiAttemptOutcome(r)
             made == [api EXCEPT !.attempt = n, !.responses = Append(@, r),
                                 !.log = @ \o AttemptLog(Url(api.ep), r, e)]
         IN  /\ requested' = requested \cup {api.ep}
             /\ IF e # None /\ ApiRetryIf(e)
                THEN IF ApiStops(n)
                     THEN /\ api' = made
                          /\ apiResult' = [raised |-> "RetryError", json |-> NoJson]
                          /\ pc' = ReturnTo(api.ep)
                     ELSE /\ api' = [made EXCEPT !.sleeps = Append(@, ApiWait(n))]
                          /\ UNCHANGED << apiResult, pc >>
                ELSE /\ api' = made
                     /\ apiResult' = [raised |-> e,
                                      json |-> IF e = None THEN r ELSE NoJson]
                     /\ pc' = ReturnTo(api.ep)
    /\ UNCHANGED << lookup, counts >>
    /\ UNCHANGED credVars
    /\ UNCHANGED << TEST_MODE, payload, nfce_id, gen_error, client_email, nota_fiscal_url,
                    purchase, queried, parts, email_data, sg, caught, escaped >>

-----------------------------------------------------------------------------
(* generate_nfce, lines 185-192, and process_webhook_payload, lines 98-112 *)

\* generate_nfce's outcome from make_api_call's: the id it returns, or the
\* exception it raises.
generate_nfce(res) ==
    IF res.raised # None THEN [raised |-> res.raised, value |-> None]
    ELSE IF res.json.body = None THEN [raised |-> "ValidationError", value |-> None]
    ELSE IF res.json.body = "NoKey" THEN [raised |-> "KeyError", value |-> None]
    ELSE [raised |-> None, value |-> res.json.body]

GenerateNfceReturn ==
    /\ pc = "gerar_ret"
    /\ LET g == generate_nfce(apiResult)
       IN  /\ nfce_id' = IF g.raised # None THEN None ELSE g.value
           /\ gen_error' = g.raised
    /\ api' = ApiIdle
    /\ apiResult' = NoResult
    /\ IF ClienteCpfCnpj(payload) = None
       THEN Return
       ELSE /\ pc' = "get_client_email"
            /\ UNCHANGED << caught, escaped >>
    /\ UNCHANGED << lookup, counts >>
    /\ UNCHANGED credVars
    /\ UNCHANGED << TEST_MODE, payload, client_email, nota_fiscal_url, requested,
                    purchase, queried, parts, email_data, sg >>

-----------------------------------------------------------------------------
(* get_client_email, lines 235-268: the warehouse query, then the ERP      *)
(* fallback get_client_email_from_tinyerp, lines 212-232.                  *)

WarehouseEmails == {None, "ana@x.com", "bob@x.com"}
MaxEmailRows == 2

\* bq_client.query(...).result(): an exception, or the rows' email column.
EmailQueryResults ==
    { [err |-> e, rows |-> << >>] : e \in {"BadRequest", "GoogleAPIError"} }
    \cup { [err |-> None, rows |-> rs] : rs \in SeqUpTo(WarehouseEmails, MaxEmailRows) }

\* Lines 252-257: the first row whose email is truthy, None when there is none.
\* (variant: the loop goes on and the last truthy email wins)
LastEmail(rows) ==
    LET hits == { i \in 1..Len(rows) : ~Falsy(rows[i]) }
    IN  IF hits = {} THEN None
        ELSE rows[CHOOSE i \in hits : \A j \in hits : j <= i]
FirstEmail(rows) ==
    LET hits == { i \in 1..Len(rows) : ~Falsy(rows[i]) }
    IN  IF hits = {} THEN None
        ELSE rows[CHOOSE i \in hits : \A j \in hits : i <= j]

\* Lines 263-268: whether the query's result is an exception, re-raised.
\* (variant: an error of the query is taken as "no email" and falls back)
WarehouseNeverRaises(res) == FALSE
WarehouseRaises(res) == res.err # None

LookupIdle == [done |-> FALSE, err |-> None, rows |-> << >>]

GetClientEmail ==
    /\ pc = "get_client_email"
    /\ queried' = queried \cup {"email"}
    /\ \E res \in EmailQueryResults :
         /\ lookup' = [done |-> TRUE, err |-> res.err, rows |-> res.rows]
         /\ IF WarehouseRaises(res)
            THEN /\ Raise(res.err)
                 /\ counts' = Bump(counts, "email")
                 /\ UNCHANGED << client_email, api, apiResult >>
            ELSE IF FirstEmail(res.rows) # None
            THEN /\ client_email' = FirstEmail(res.rows)
                 /\ pc' = "check_email"
                 /\ counts' = Bump(counts, "email")
                 /\ UNCHANGED << api, apiResult, caught, escaped >>
            ELSE /\ BeginApiCall("contatos")
                 /\ counts' = Bump(Bump(counts, "email"), "contatos")
                 /\ UNCHANGED << client_email, caught, escaped >>
    /\ UNCHANGED credVars
    /\ UNCHANGED << TEST_MODE, payload, nfce_id, gen_error, nota_fiscal_url, requested,
                    purchase, parts, email_data, sg >>

\* get_client_email_from_tinyerp's outcome from make_api_call's.
get_client_email_from_tinyerp(res) ==
    IF res.raised # None THEN [raised |-> res.raised, value |-> None]
    ELSE IF res.json.body \in {None, "NoEmail"} THEN [raised |-> None, value |-> None]
    ELSE [raised |-> None, value |-> res.json.body]

ContatosReturn ==
    /\ pc = "contatos_ret"
    /\ LET c == get_client_email_from_tinyerp(apiResult)
       IN  IF c.raised # None
           THEN /\ Raise(c.raised)
                /\ UNCHANGED client_email
           ELSE /\ client_email' = c.value
                /\ pc' = "check_email"
                /\ UNCHANGED << caught, escaped >>
    /\ api' = ApiIdle
    /\ apiResult' = NoResult
    /\ UNCHANGED << lookup, counts >>
    /\ UNCHANGED credVars
    /\ UNCHANGED << TEST_MODE, payload, nfce_id, gen_error, nota_fiscal_url, requested,
                    purchase, queried, parts, email_data, sg >>

-----------------------------------------------------------------------------
(* process_webhook_payload, lines 115-127, and get_nota_fiscal_link       *)

\* Line 115: "if not client_email".
\* (variant: the check is left out)
ClientEmailUnchecked(email) == FALSE
ClientEmailMissing(email) == Falsy(email)

\* Line 121: whether the public link is requested.
\* (variant: requested whatever generate_nfce gave)
LinkWantedAlways(id) == TRUE
LinkWanted(id) == ~Falsy(id)

\* Entering aggregate_email_data and its first call, get_purchase_details.
BeginAggregate ==
    /\ pc' = "get_purchase_details"
    /\ UNCHANGED << api, apiResult >>

CheckClientEmail ==
    /\ pc = "check_email"
    /\ IF ClientEmailMissing(client_email)
       THEN /\ Return
            /\ UNCHANGED << api, apiResult >>
       ELSE /\ IF LinkWanted(nfce_id) THEN BeginApiCall("link") ELSE BeginAggregate
            /\ UNCHANGED << caught, escaped >>
    /\ counts' = IF ClientEmailMissing(client_email) THEN counts
                 ELSE IF LinkWanted(nfce_id) THEN Bump(counts, "link")
                 ELSE Bump(counts, "get_purchase_details")
    /\ lookup' = LookupIdle
    /\ UNCHANGED credVars
    /\ UNCHANGED << TEST_MODE, payload, nfce_id, gen_error, client_email, nota_fiscal_url,
                    requested, purchase, queried, parts, email_data, sg >>

\* What an external read answered, for parts.returned: nothing before it
\* ran and when it raised, else the link or the rows.
NotRun == [ok |-> FALSE, value |-> None]
LinkAnswer(l) == [ok |-> l.raised = None, value |-> l.value]
NotRead == [ok |-> FALSE, rows |-> << >>]
QueryAnswer(res) == [ok |-> res.err = None, rows |-> res.rows]

\* get_nota_fiscal_link's outcome from make_api_call's (lines 200-209).
get_nota_fiscal_link(res) ==
    IF res.raised # None THEN [raised |-> res.raised, value |-> None]
    ELSE IF res.json.body = None THEN [raised |-> "ValidationError", value |-> None]
    ELSE [raised |-> None, value |-> res.json.body]

LinkReturn ==
    /\ pc = "link_ret"
    /\ LET l == get_nota_fiscal_link(apiResult)
       IN  /\ nota_fiscal_url' = IF l.raised # None THEN None ELSE l.value
           /\ parts' = [parts EXCEPT !.returned.link = LinkAnswer(l)]
    /\ api' = ApiIdle
    /\ apiResult' = NoResult
    /\ pc' = "get_purchase_details"
    /\ counts' = Bump(counts, "get_purchase_details")
    /\ UNCHANGED lookup
    /\ UNCHANGED credVars
    /\ UNCHANGED << TEST_MODE, payload, nfce_id, gen_error, client_email, requested, purchase,
                    queried, email_data, sg, caught, escaped >>

-----------------------------------------------------------------------------
(* get_purchase_details, lines 271-347                                     *)

MaxRows == 2

\* A line item of the transaction as the warehouse holds it.
Items == { [name |-> "cafe", quantidade |-> 2, valor |-> 10],
           [name |-> "pao", quantidade |-> 1, valor |-> 5] }

RECURSIVE SubTotal(_)
SubTotal(itens) ==
    IF itens = << >> THEN 0
    ELSE Head(itens).quantidade * Head(itens).valor + SubTotal(Tail(itens))

\* The rows of the query of lines 277-302 for a transaction with these items.
PurchaseRows(itens) ==
    [ i \in 1..Len(itens) |->
        [ item_name |-> itens[i].name,
          item_quantity |-> itens[i].quantidade,
          item_price |-> itens[i].valor,
          total_item_price |-> itens[i].quantidade * itens[i].valor,
          total_discount |-> "0",
          total_paid |-> SubTotal(itens),
          payment_method |-> "pix",
          sub_total |-> SubTotal(itens) ] ]

\* bq_client.query(...).result(): an exception, or the rows (none while the
\* warehouse has not ingested the transaction).
ItemsQueryResults ==
    { [err |-> e, rows |-> << >>] : e \in {"BadRequest", "GoogleAPIError"} }
    \cup { [err |-> None, rows |-> PurchaseRows(it)] : it \in SeqUpTo(Items, MaxRows) }

\* Lines 314-340: the item details of every row, the summary of the last one.
item_detail(row) ==
    [ item_name |-> row.item_name, item_quantity |-> row.item_quantity,
      item_price |-> row.item_price, total_item_price |-> row.total_item_price ]

purchase_summary(rows) ==
    LET last == rows[Len(rows)]
    IN  [ total_discount |-> last.total_discount,
          total_paid |-> last.total_paid,
          payment_method |-> last.payment_method,
          sub_total |-> last.sub_total,
          items |-> [ i \in 1..Len(rows) |-> item_detail(rows[i]) ] ]

\* stop=stop_after_attempt(4) of get_purchase_details
PurchaseStopAfterAttempt == 4

\* wait=wait_exponential(multiplier=30, min=30, max=90), in half units.
PurchaseWait(n) == wait_exponential(60, 60, 180, n)

\* Lines 332-334: the result is refused when it has no rows.
PurchaseFails(res) == res.err # None \/ res.rows = << >>

\* What an attempt's result was: the exception, "norows" or "rows".
ResultClass(res) ==
    IF res.err # None THEN res.err ELSE IF res.rows = << >> THEN "norows" ELSE "rows"

\* Line 272: whether tenacity stops after failed attempt number n.
\* (variant: stop_after_attempt(3))
PurchaseStopsAtThree(n) == n >= PurchaseStopAfterAttempt - 1
PurchaseStops(n) == n >= PurchaseStopAfterAttempt

PurchaseIdle == [attempt |-> 0, results |-> << >>, sleeps |-> << >>]

GetPurchaseDetailsAttempt ==
    /\ pc = "get_purchase_details"
    /\ queried' = queried \cup {"items"}
    /\ \E res \in ItemsQueryResults :
         LET n == purchase.attempt + 1
         IN  IF PurchaseFails(res)
             THEN IF PurchaseStops(n)
                  THEN /\ purchase' = [purchase EXCEPT !.attempt = n,
                                         !.results = Append(@, ResultClass(res))]
                       /\ Raise("RetryError")
                       /\ UNCHANGED parts
                  ELSE /\ purchase' = [purchase EXCEPT !.attempt = n,
                                         !.results = Append(@, ResultClass(res)),
                                         !.sleeps = Append(@, PurchaseWait(n))]
                       /\ UNCHANGED << pc, parts, caught, escaped >>
             ELSE /\ purchase' = PurchaseIdle
                  /\ parts' = [parts EXCEPT !.items = purchase_summary(res.rows),
                                            !.returned.items = res.rows]
                  /\ pc' = "get_daily_checkins"
                  /\ UNCHANGED << caught, escaped >>
    /\ UNCHANGED << lookup, counts >>
    /\ UNCHANGED credVars
    /\ UNCHANGED << TEST_MODE, payload, nfce_id, gen_error, client_email, nota_fiscal_url, api,
                    apiResult, requested, email_data, sg >>

-----------------------------------------------------------------------------
(* The loyalty queries: get_daily_checkins (350-383), get_quarter_spend    *)
(* (386-432), get_lifetime_spend (435-499).                                *)

\* A loyalty query's result: an exception, or the rows' single column.
LoyaltyResults(values) ==
    { [err |-> e, rows |-> << >>] : e \in {"BadRequest", "GoogleAPIError"} }
    \cup { [err |-> None, rows |-> << >>] }
    \cup { [err |-> None, rows |-> << v >>] : v \in values }

\* Lines 372-381.
daily_checkins(res) ==
    IF res.err # None THEN Num(0)
    ELSE IF res.rows = << >> THEN Num(0)
    ELSE res.rows[1]

\* Lines 422-430.
\* (variant: the handlers leave quarter_spend as None)
quarter_spend_none_on_error(res) ==
    IF res.err # None THEN NoneNum
    ELSE IF res.rows = << >> THEN Num(0)
    ELSE res.rows[1]
quarter_spend(res) ==
    IF res.err # None THEN Num(0)
    ELSE IF res.rows = << >> THEN Num(0)
    ELSE res.rows[1]

\* Lines 479-496.
total_spend(res) ==
    IF res.err # None THEN Num(0)
    ELSE IF res.rows = << >> THEN Num(0)
    ELSE LET hits == { i \in 1..Len(res.rows) : ~res.rows[i].isNone }
         IN  IF hits = {} THEN Num(0)
             ELSE res.rows[CHOOSE i \in hits : \A j \in hits : i <= j]

GetDailyCheckins ==
    /\ pc = "get_daily_checkins"
    /\ queried' = queried \cup {"checkins"}
    /\ \E res \in LoyaltyResults({Num(0), Num(3)}) :
         parts' = [parts EXCEPT !.daily_checkins = daily_checkins(res),
                                !.failed = IF res.err # None
                                           THEN @ \cup {"checkins"} ELSE @,
                                !.returned.checkins = QueryAnswer(res)]
    /\ pc' = "get_quarter_spend"
    /\ counts' = Bump(counts, "checkins")
    /\ UNCHANGED lookup
    /\ UNCHANGED credVars
    /\ UNCHANGED << TEST_MODE, payload, nfce_id, gen_error, client_email, nota_fiscal_url, api,
                    apiResult, requested, purchase, email_data, sg, caught, escaped >>

GetQuarterSpend ==
    /\ pc = "get_quarter_spend"
    /\ queried' = queried \cup {"quarter"}
    /\ \E res \in LoyaltyResults({NoneNum, Num(100)}) :
         parts' = [parts EXCEPT !.quarter_spend = quarter_spend(res),
                                !.failed = IF res.err # None
                                           THEN @ \cup {"quarter"} ELSE @,
                                !.returned.quarter = QueryAnswer(res)]
    /\ pc' = "get_lifetime_spend"
    /\ counts' = Bump(counts, "quarter")
    /\ UNCHANGED lookup
    /\ UNCHANGED credVars
    /\ UNCHANGED << TEST_MODE, payload, nfce_id, gen_error, client_email, nota_fiscal_url, api,
                    apiResult, requested, purchase, email_data, sg, caught, escaped >>

GetLifetimeSpend ==
    /\ pc = "get_lifetime_spend"
    /\ queried' = queried \cup {"lifetime"}
    /\ \E res \in LoyaltyResults({NoneNum, Num(500)}) :
         parts' = [parts EXCEPT !.total_spend = total_spend(res),
                                !.failed = IF res.err # None
                                           THEN @ \cup {"lifetime"} ELSE @,
                                !.returned.lifetime = QueryAnswer(res)]
    /\ pc' = "build_email_data"
    /\ counts' = Bump(counts, "lifetime")
    /\ UNCHANGED lookup
    /\ UNCHANGED credVars
    /\ UNCHANGED << TEST_MODE, payload, nfce_id, gen_error, client_email, nota_fiscal_url, api,
                    apiResult, requested, purchase, email_data, sg, caught, escaped >>

-----------------------------------------------------------------------------
(* aggregate_email_data, lines 509-526, and the call of send_email         *)

\* dict.get(key) with the default None.
Get(d, k) == IF k \in DOMAIN d THEN d[k] ELSE None

\* Lines 509-521.
\* (variant: 'lifetime_spend' is read from the quarter query's result)
BaseEmailDataLifetimeFromQuarter(email, name, dados_id, p) ==
    [ client_email |-> email,
      client_name |-> name,
      dados_id |-> dados_id,
      items |-> p.items.items,
      sub_total |-> p.items.sub_total,
      total_discount |-> p.items.total_discount,
      total_paid |-> p.items.total_paid,
      payment_method |-> p.items.payment_method,
      daily_checkins |-> p.daily_checkins,
      quarter_spend |-> p.quarter_spend,
      lifetime_spend |-> p.quarter_spend ]
BaseEmailData(email, name, dados_id, p) ==
    [ client_email |-> email,
      client_name |-> name,
      dados_id |-> dados_id,
      items |-> p.items.items,
      sub_total |-> p.items.sub_total,
      total_discount |-> p.items.total_discount,
      total_paid |-> p.items.total_paid,
      payment_method |-> p.items.payment_method,
      daily_checkins |-> p.daily_checkins,
      quarter_spend |-> p.quarter_spend,
      lifetime_spend |-> p.total_spend ]

WithUrl(d, url) ==
    [ k \in DOMAIN d \cup {"nota_fiscal_url"} |->
        IF k = "nota_fiscal_url" THEN url ELSE d[k] ]

\* Lines 509-526.
\* (variant: 'nota_fiscal_url' is set without the test of line 523)
EmailDataUrlAlways(email, name, dados_id, p, url) ==
    WithUrl(BaseEmailData(email, name, dados_id, p), url)
EmailData(email, name, dados_id, p, url) ==
    IF url # None
    THEN WithUrl(BaseEmailData(email, name, dados_id, p), url)
    ELSE BaseEmailData(email, name, dados_id, p)

SgIdle == [called |-> FALSE, retry_count |-> 0, recipient |-> None,
           responses |-> << >>, sleeps |-> << >>]
SgCalled == [SgIdle EXCEPT !.called = TRUE]

BuildEmailData ==
    /\ pc = "build_email_data"
    /\ email_data' = EmailData(client_email, ClienteNome(payload), DadosId(payload),
                               parts, nota_fiscal_url)
    /\ sg' = SgCalled
    /\ pc' = "send_email"
    /\ counts' = Bump(counts, "send_email")
    /\ UNCHANGED lookup
    /\ UNCHANGED credVars
    /\ UNCHANGED << TEST_MODE, payload, nfce_id, gen_error, client_email, nota_fiscal_url, api,
                    apiResult, requested, purchase, queried, parts, caught, escaped >>

-----------------------------------------------------------------------------
(* send_email, lines 532-563: one execution of its body (one level of the  *)
(* recursion), with the sleep that precedes the next one.                  *)

\* sg_client.send(message): an exception, or a response with a status code.
ProviderResponses ==
    { [raised |-> TRUE, status_code |-> 0],
      [raised |-> FALSE, status_code |-> 202],
      [raised |-> FALSE, status_code |-> 500] }

\* Line 535.
\* (variant: the TEST_MODE override is left out)
RecipientClientOnly(test_mode, d) == Get(d, "client_email")
Recipient(test_mode, d) == IF test_mode THEN TEST_EMAIL ELSE Get(d, "client_email")

\* Line 550.
\* (variant: no response counts as delivered, the send is repeated)
DeliveredNever(resp) == FALSE
Delivered(resp) == ~resp.raised /\ resp.status_code \in 200..299

\* Line 557: whether another attempt follows a failed one.
\* (variant: retry_count < 1)
SendRetriesOnce(retry_count) == retry_count < 1
SendRetries(retry_count) == retry_count < 2

\* Line 558, in half units.
SendWait(retry_count) == Units(Pow2(retry_count + 1) * 30)

SendEmailAttempt ==
    /\ pc = "send_email"
    /\ LET recipient_email == Recipient(TEST_MODE, email_data)
       IN  IF Falsy(recipient_email)
           THEN /\ sg' = [sg EXCEPT !.recipient = recipient_email]
                /\ pc' = "done"
           ELSE \E resp \in ProviderResponses :
                  LET sent == [sg EXCEPT !.recipient = recipient_email,
                                         !.responses = Append(@, resp)]
                  IN  IF Delivered(resp)
                      THEN /\ sg' = sent
                           /\ pc' = "done"
                      ELSE IF SendRetries(sg.retry_count)
                      THEN /\ sg' = [sent EXCEPT
                                       !.sleeps = Append(@, SendWait(sg.retry_count)),
                                       !.retry_count = @ + 1]
                           /\ pc' = "send_email"
                      ELSE /\ sg' = sent
                           /\ pc' = "done"
    /\ UNCHANGED << lookup, counts >>
    /\ UNCHANGED credVars
    /\ UNCHANGED << TEST_MODE, payload, nfce_id, gen_error, client_email, nota_fiscal_url, api,
                    apiResult, requested, purchase, queried, parts, email_data,
                    caught, escaped >>

-----------------------------------------------------------------------------
(* The invocation: process_webhook_payload on any payload.  TEST_MODE is   *)
(* static configuration; the source ships it as True, a production build   *)
(* sets it to False.                                                       *)

\* Lines 29-30, and no invocation of trigger_function in the model of one
\* run of process_webhook_payload.
CredInit ==
    /\ TINY_ERP_API_TOKEN = ""
    /\ SENDGRID_API_TOKEN = ""
    /\ secrets = [erp |-> "t1", sg |-> "k1"]
    /\ inv = << >>


NoParts == [items |-> EmptyDict, daily_checkins |-> Num(0), quarter_spend |-> Num(0),
            total_spend |-> Num(0), failed |-> {},
            returned |-> [link |-> NotRun, items |-> << >>, checkins |-> NotRead,
                          quarter |-> NotRead, lifetime |-> NotRead]]

Init ==
    /\ TEST_MODE \in BOOLEAN
    /\ payload \in Payloads
    /\ pc = "start"
    /\ nfce_id = None
    /\ gen_error = None
    /\ client_email = None
    /\ nota_fiscal_url = None
    /\ api = ApiIdle
    /\ apiResult = NoResult
    /\ requested = {}
    /\ purchase = PurchaseIdle
    /\ queried = {}
    /\ parts = NoParts
    /\ email_data = EmptyDict
    /\ sg = SgIdle
    /\ caught = None
    /\ escaped = None
    /\ lookup = LookupIdle
    /\ counts = NoCounts
    /\ CredInit

Next ==
    \/ ProcessStart
    \/ MakeApiCallAttempt
    \/ GenerateNfceReturn
    \/ GetClientEmail
    \/ ContatosReturn
    \/ CheckClientEmail
    \/ LinkReturn
    \/ GetPurchaseDetailsAttempt
    \/ GetDailyCheckins
    \/ GetQuarterSpend
    \/ GetLifetimeSpend
    \/ BuildEmailData
    \/ SendEmailAttempt

Spec == Init /\ [][Next]_vars

\* The run is sequential code: while a step is possible (the service it
\* waits for answers, the sleep ends) the step is taken.
SpecFair == Spec /\ WF_vars(Next)

-----------------------------------------------------------------------------
(* send_email on its own: called with any payload, also one without the    *)
(* customer's email, which process_webhook_payload never hands to it.      *)

SendParts ==
    [ items |-> purchase_summary(PurchaseRows(<< [name |-> "cafe", quantidade |-> 2,
                                                  valor |-> 10] >>)),
      daily_checkins |-> Num(3), quarter_spend |-> Num(100),
      total_spend |-> Num(500), failed |-> {} ]

Without(d, key) == [ k \in DOMAIN d \ {key} |-> d[k] ]

SendEmailInputs ==
    LET full == { EmailData(e, "Ana", "123", SendParts, u) :
                    e \in {None, "", "ana@x.com"}, u \in {None, "http://x/55"} }
    IN  full \cup { Without(d, "client_email") : d \in full }

InitSend ==
    /\ TEST_MODE \in BOOLEAN
    /\ payload = [hasDados |-> TRUE, id |-> "123", hasCliente |-> TRUE, cpfCnpj |-> "111"]
    /\ pc = "send_email"
    /\ nfce_id = None
    /\ gen_error = None
    /\ client_email = None
    /\ nota_fiscal_url = None
    /\ api = ApiIdle
    /\ apiResult = NoResult
    /\ requested = {}
    /\ purchase = PurchaseIdle
    /\ queried = {}
    /\ parts = NoParts
    /\ email_data \in SendEmailInputs
    /\ sg = SgCalled
    /\ caught = None
    /\ escaped = None
    /\ lookup = LookupIdle
    /\ counts = Bump(NoCounts, "send_email")
    /\ CredInit

NextSend == SendEmailAttempt

SpecSend == InitSend /\ [][NextSend]_vars

-----------------------------------------------------------------------------
(* trigger_function, lines 62-73, run by several invocations in one        *)
(* process: initialize_globals writes the two module globals, and every    *)
(* later use of a credential reads the global again (lines 69, 182, 197,   *)
(* 214).  Which ERP calls a run makes is decided in Spec; here every       *)
(* choice of them is allowed, and only the credentials are followed.       *)

NumInvocations == 2

InvIdle == [ipc |-> "fetch_erp", erp_fetched |-> None, sg_fetched |-> None,
            sg_client_key |-> None, erp_calls |-> << >>, sent_with |-> None]

\* Line 46: get_api_token(SECRET_MANAGER_API_TOKEN_NAME) into the global;
\* it raises when the store cannot be read, which ends the invocation.
FetchErpToken(i) ==
    /\ inv[i].ipc = "fetch_erp"
    /\ \/ /\ TINY_ERP_API_TOKEN' = secrets.erp
          /\ inv' = [inv EXCEPT ![i].erp_fetched = secrets.erp,
                                ![i].ipc = "fetch_sendgrid"]
       \/ /\ inv' = [inv EXCEPT ![i].ipc = "done"]
          /\ UNCHANGED TINY_ERP_API_TOKEN
    /\ UNCHANGED << SENDGRID_API_TOKEN, secrets >>
    /\ UNCHANGED pipeVars

\* Line 47: get_api_token(SECRET_MANAGER_SENDGRID_API_KEY_NAME) into the global.
FetchSendgridToken(i) ==
    /\ inv[i].ipc = "fetch_sendgrid"
    /\ \/ /\ SENDGRID_API_TOKEN' = secrets.sg
          /\ inv' = [inv EXCEPT ![i].sg_fetched = secrets.sg,
                                ![i].ipc = "sg_client"]
       \/ /\ inv' = [inv EXCEPT ![i].ipc = "done"]
          /\ UNCHANGED SENDGRID_API_TOKEN
    /\ UNCHANGED << TINY_ERP_API_TOKEN, secrets >>
    /\ UNCHANGED pipeVars

\* Line 69: SendGridAPIClient(SENDGRID_API_TOKEN) reads the global.
CreateSgClient(i) ==
    /\ inv[i].ipc = "sg_client"
    /\ inv' = [inv EXCEPT ![i].sg_client_key = SENDGRID_API_TOKEN,
                          ![i].ipc = "download"]
    /\ UNCHANGED << TINY_ERP_API_TOKEN, SENDGRID_API_TOKEN, secrets >>
    /\ UNCHANGED pipeVars

\* Lines 71-73: download_blob; the payload is processed when there is one.
DownloadBlob(i) ==
    /\ inv[i].ipc = "download"
    /\ \E got \in BOOLEAN :
         inv' = [inv EXCEPT ![i].ipc = IF got THEN "gerar" ELSE "done"]
    /\ UNCHANGED << TINY_ERP_API_TOKEN, SENDGRID_API_TOKEN, secrets >>
    /\ UNCHANGED pipeVars

\* The stage that follows an ERP call in process_webhook_payload.
StageAfter(ep) ==
    CASE ep = "gerar"    -> "contatos"
      [] ep = "contatos" -> "link"
      [] ep = "link"     -> "send"

\* Lines 182-185, 214-217, 197-200: "token = TINY_ERP_API_TOKEN" and the
\* URL built with it, for the endpoint the invocation has come to.
ErpCall(i) ==
    /\ inv[i].ipc \in Endpoints
    /\ inv' = [inv EXCEPT
                 ![i].erp_calls = Append(@, [ep |-> inv[i].ipc,
                                             token |-> TINY_ERP_API_TOKEN]),
                 ![i].ipc = StageAfter(inv[i].ipc)]
    /\ UNCHANGED << TINY_ERP_API_TOKEN, SENDGRID_API_TOKEN, secrets >>
    /\ UNCHANGED pipeVars

\* The run does not make the call of this stage (a warehouse hit, no
\* identifier), or it returns before the stage (lines 112, 117, 133).
SkipOrReturn(i) ==
    /\ inv[i].ipc \in {"contatos", "link", "send"}
    /\ \E next \in {"done"} \cup (IF inv[i].ipc = "send" THEN {}
                                   ELSE {StageAfter(inv[i].ipc)}) :
         inv' = [inv EXCEPT ![i].ipc = next]
    /\ UNCHANGED << TINY_ERP_API_TOKEN, SENDGRID_API_TOKEN, secrets >>
    /\ UNCHANGED pipeVars

\* Line 548: sg_client.send(message), with the key the client was built with.
InvSendEmail(i) ==
    /\ inv[i].ipc = "send"
    /\ inv' = [inv EXCEPT ![i].sent_with = inv[i].sg_client_key,
                          ![i].ipc = "done"]
    /\ UNCHANGED << TINY_ERP_API_TOKEN, SENDGRID_API_TOKEN, secrets >>
    /\ UNCHANGED pipeVars

\* The secrets are rotated in the store ("versions/latest", lines 18-19).
RotateSecrets ==
    /\ secrets.erp = "t1"
    /\ secrets' = [erp |-> "t2", sg |-> "k2"]
    /\ UNCHANGED << TINY_ERP_API_TOKEN, SENDGRID_API_TOKEN, inv >>
    /\ UNCHANGED pipeVars

InitConc ==
    /\ TEST_MODE = TRUE
    /\ payload = [hasDados |-> TRUE, id |-> "123", hasCliente |-> TRUE, cpfCnpj |-> "111"]
    /\ pc = "start"
    /\ nfce_id = None
    /\ gen_error = None
    /\ client_email = None
    /\ nota_fiscal_url = None
    /\ api = ApiIdle
    /\ apiResult = NoResult
    /\ requested = {}
    /\ purchase = PurchaseIdle
    /\ queried = {}
    /\ parts = NoParts
    /\ email_data = EmptyDict
    /\ sg = SgIdle
    /\ caught = None
    /\ escaped = None
    /\ lookup = LookupIdle
    /\ counts = NoCounts
    /\ TINY_ERP_API_TOKEN = ""
    /\ SENDGRID_API_TOKEN = ""
    /\ secrets = [erp |-> "t1", sg |-> "k1"]
    /\ inv = [i \in 1..NumInvocations |-> InvIdle]

NextConc ==
    \/ \E i \in DOMAIN inv : FetchErpToken(i)
    \/ \E i \in DOMAIN inv : FetchSendgridToken(i)
    \/ \E i \in DOMAIN inv : CreateSgClient(i)
    \/ \E i \in DOMAIN inv : DownloadBlob(i)
    \/ \E i \in DOMAIN inv : ErpCall(i)
    \/ \E i \in DOMAIN inv : SkipOrReturn(i)
    \/ \E i \in DOMAIN inv : InvSendEmail(i)
    \/ RotateSecrets

SpecConc == InitConc /\ [][NextConc]_vars

-----------------------------------------------------------------------------
(* Properties                                                              *)

Truthy(x) == ~Falsy(x)

ApiReturned == pc \in {"gerar_ret", "contatos_ret", "link_ret"}

IsInvalidToken(r) == r.http = "ok" /\ r.status = "1" /\ r.codigo_erro = "1"
IsValidation(r) == r.http = "ok" /\ r.status = "2"
IsRetryableBusiness(r) == r.http = "ok" /\ r.status = "1" /\ r.codigo_erro # "1"

LoyaltyQueries == {"checkins", "quarter", "lifetime"}
AnalyticsQueries == {"items"} \cup LoyaltyQueries

\* C1: a payload without 'dados', or whose dados.id is missing or empty,
\* causes no ERP request, no warehouse query and no email send, and no
\* exception leaves process_webhook_payload.
C1_NoIdNoCalls ==
    (~payload.hasDados \/ Falsy(DadosId(payload))) =>
        /\ requested = {}
        /\ api = ApiIdle
        /\ queried = {}
        /\ ~sg.called /\ sg.responses = << >>
        /\ escaped = None

C1_Witness ==
    /\ pc = "done"
    /\ payload.hasDados /\ DadosId(payload) = ""
    /\ requested = {} /\ queried = {} /\ ~sg.called

\* C2: when the warehouse gave no email (so the ERP contact search was
\* requested) and the contact search gave none either, send_email is never
\* called, no analytics query is issued and no exception leaves
\* process_webhook_payload.
C2_NoEmailNoSend ==
    ( /\ "contatos" \in requested
      /\ pc \in {"check_email", "done"}
      /\ Falsy(client_email) ) =>
        /\ ~sg.called /\ sg.responses = << >>
        /\ queried \cap AnalyticsQueries = {}
        /\ escaped = None

C2_Witness ==
    /\ pc = "done"
    /\ "contatos" \in requested
    /\ client_email = None
    /\ caught = None
    /\ ~sg.called

\* C3: a response with status '1' and error code '1' raises InvalidTokenError
\* and one with status '2' raises ValidationError; it is the last request of
\* the call, no sleep follows it, the caller gets that very exception, and
\* when it is the first response the call made one request and never slept.
C3_NoRetryOnTokenOrValidation ==
    \A i \in 1..Len(api.responses) :
        LET r == api.responses[i]
        IN  (IsInvalidToken(r) \/ IsValidation(r)) =>
              /\ i = Len(api.responses)
              /\ api.attempt = i
              /\ Len(api.sleeps) = i - 1
              /\ ApiReturned
              /\ apiResult.raised =
                   (IF IsInvalidToken(r) THEN "InvalidTokenError" ELSE "ValidationError")
              /\ (i = 1 => api.attempt = 1 /\ api.sleeps = << >>)

C3_Witness ==
    /\ ApiReturned
    /\ Len(api.responses) = 1
    /\ IsInvalidToken(api.responses[1])
    /\ apiResult.raised = "InvalidTokenError"

AllRetryableBusiness ==
    /\ api.ep # None
    /\ \A i \in 1..Len(api.responses) : IsRetryableBusiness(api.responses[i])

\* C4 as stated: when every response is status '1' with another error code,
\* the call sleeps 30, 75, 187.5 and 187.5 time-units before it fails.
C4_Original ==
    (AllRetryableBusiness /\ ApiReturned) =>
        /\ apiResult.raised = "RetryError"
        /\ api.sleeps = << Units(30), Units(75), 375, 375 >>

\* C4 amended: when every response is status '1' with another error code,
\* the request is made 4 times in all (3 retries), the call sleeps 30
\* time-units before each retry, and after the 4th response it fails with
\* tenacity's RetryError.
C4_Amended ==
    AllRetryableBusiness =>
        /\ api.attempt <= 4
        /\ api.attempt = Len(api.responses)
        /\ api.sleeps = [ i \in 1..Min(api.attempt, 3) |-> Units(30) ]
        /\ ApiReturned <=> api.attempt = 4
        /\ ApiReturned => apiResult.raised = "RetryError"

C4_Witness ==
    /\ AllRetryableBusiness
    /\ ApiReturned
    /\ api.attempt = 4
    /\ apiResult.raised = "RetryError"

GenerationFailed == gen_error # None
ItemsSucceeded == DOMAIN parts.items # {}

\* C5: with dados.id, a tax id, a resolved email and a successful items
\* query, a failed generation (whatever the exception) still ends in a call
\* of send_email, with a payload that has no 'nota_fiscal_url' key; the
\* public link is never requested.
C5_GenerationFailureNonFatal ==
    GenerationFailed =>
        /\ nfce_id = None
        /\ "link" \notin requested
        /\ (ItemsSucceeded /\ pc = "done") => sg.called
        /\ sg.called =>
             /\ DOMAIN email_data # {}
             /\ "nota_fiscal_url" \notin DOMAIN email_data
             /\ email_data.client_email = client_email
             /\ Truthy(client_email)

C5_Witness ==
    /\ pc = "done"
    /\ gen_error = "ValidationError"
    /\ sg.called /\ Len(sg.responses) >= 1
    /\ "nota_fiscal_url" \notin DOMAIN email_data

\* C6 as stated: in a finished run the public link was requested exactly
\* when generate_nfce produced an identifier.
C6_Original ==
    pc = "done" => ("link" \in requested <=> Truthy(nfce_id))

\* C6 amended: the public link is requested only with an identifier from
\* generate_nfce and a resolved customer email, and in a finished run it was
\* requested whenever both were there.  An identifier alone is not enough:
\* a missing tax id, an unresolved email or a failed lookup ends the run
\* before the link is asked for.
C6_Amended ==
    /\ (api.ep = "link" \/ "link" \in requested) =>
           Truthy(nfce_id) /\ Truthy(client_email)
    /\ (pc = "done" /\ Truthy(nfce_id) /\ Truthy(client_email)) =>
           "link" \in requested

C6_Witness ==
    /\ pc = "done"
    /\ nfce_id = "55"
    /\ Truthy(client_email)
    /\ "link" \in requested

AllNoRows ==
    /\ purchase.attempt > 0
    /\ \A i \in 1..Len(purchase.results) : purchase.results[i] = "norows"

\* C7: when the items query returns no rows on every attempt,
\* get_purchase_details runs exactly 4 times and the run then ends: no
\* loyalty query, no call of send_email, no exception leaving
\* process_webhook_payload.
C7_NoRowsAborts ==
    AllNoRows =>
        /\ purchase.attempt = Len(purchase.results)
        /\ purchase.attempt <= 4
        /\ pc \in {"get_purchase_details", "done"}
        /\ pc = "done" <=> purchase.attempt = 4
        /\ queried \cap LoyaltyQueries = {}
        /\ ~sg.called /\ sg.responses = << >>
        /\ escaped = None
        /\ pc = "done" => caught = "RetryError"

C7_Witness ==
    /\ AllNoRows
    /\ pc = "done"
    /\ purchase.attempt = 4
    /\ caught = "RetryError"
    /\ ~sg.called

\* C8: whichever of the three loyalty queries fail, the run goes on to build
\* the payload and to submit it to the provider; each failed query's field is
\* 0, 'items' holds the item details of the items query, and no exception is
\* raised.
C8_LoyaltyFailuresDefaultToZero ==
    parts.failed # {} =>
        /\ caught = None /\ escaped = None
        /\ pc = "done" => sg.called /\ Len(sg.responses) >= 1
        /\ sg.called =>
             /\ "checkins" \in parts.failed => email_data.daily_checkins = Num(0)
             /\ "quarter" \in parts.failed => email_data.quarter_spend = Num(0)
             /\ "lifetime" \in parts.failed => email_data.lifetime_spend = Num(0)
             /\ email_data.items = parts.items.items
             /\ Len(email_data.items) >= 1
             /\ email_data.sub_total = parts.items.sub_total

C8_Witness ==
    /\ pc = "done"
    /\ parts.failed = LoyaltyQueries
    /\ Len(sg.responses) >= 1
    /\ email_data.daily_checkins = Num(0)
    /\ email_data.quarter_spend = Num(0)
    /\ email_data.lifetime_spend = Num(0)
    /\ Len(email_data.items) = 2

AllSendsFailed == \A i \in 1..Len(sg.responses) : ~Delivered(sg.responses[i])

\* C9: send_email submits the message at most 3 times; while every attempt
\* fails it sleeps 60 time-units before attempt 2 and 120 before attempt 3,
\* and after the third failure it returns without raising.
C9_SendRetrySchedule ==
    /\ Len(sg.responses) <= 3
    /\ AllSendsFailed =>
         /\ sg.sleeps = [ i \in 1..Min(Len(sg.responses), 2) |->
                            IF i = 1 THEN Units(60) ELSE Units(120) ]
         /\ sg.retry_count = Len(sg.sleeps)
         /\ Len(sg.responses) \in {1, 2} => pc = "send_email"
         /\ Len(sg.responses) = 3 =>
              pc = "done" /\ caught = None /\ escaped = None

C9_Witness ==
    /\ pc = "done"
    /\ Len(sg.responses) = 3
    /\ AllSendsFailed
    /\ sg.sleeps = << Units(60), Units(120) >>
    /\ escaped = None

EmailAbsent == Falsy(Get(email_data, "client_email"))

NoTaxId == ~payload.hasCliente \/ payload.cpfCnpj = None

ContatosCalled == api.ep = "contatos" \/ "contatos" \in requested
LinkCalled == api.ep = "link" \/ "link" \in requested

\* C11: a payload with dados.id but without a tax id ('cliente' or its
\* cpfCnpj missing) never reaches the customer lookup: no warehouse email
\* query, no ERP contact search, no public-link request, no analytics query,
\* no call of send_email, and no exception; the run ends after generate_nfce.
C11_NoTaxIdShortCircuits ==
    (HasDadosId(payload) /\ NoTaxId) =>
        /\ pc \in {"start", "api", "gerar_ret", "done"}
        /\ api.ep \in {None, "gerar"}
        /\ requested \subseteq {"gerar"}
        /\ queried = {}
        /\ ~lookup.done
        /\ ~sg.called /\ sg.responses = << >>
        /\ caught = None /\ escaped = None

C11_Witness ==
    /\ pc = "done"
    /\ payload.hasDados /\ payload.id = "123"
    /\ payload.hasCliente /\ payload.cpfCnpj = None
    /\ requested = {"gerar"}
    /\ queried = {}
    /\ ~sg.called

\* The first row of the warehouse result that has a non-empty email.
HasFirstHit(rows, i) ==
    /\ i \in 1..Len(rows)
    /\ Truthy(rows[i])
    /\ \A j \in 1..(i - 1) : Falsy(rows[j])

WarehouseHit == lookup.err = None /\ \E i \in 1..Len(lookup.rows) : Truthy(lookup.rows[i])
WarehouseMiss == lookup.err = None /\ \A i \in 1..Len(lookup.rows) : Falsy(lookup.rows[i])

\* C12: in get_client_email the ERP contact search is called exactly when the
\* warehouse query ended without error and no row had a non-empty email; on
\* a row with a non-empty email the first such email is the result and the
\* ERP is not called.
C12_FallbackIffWarehouseMiss ==
    lookup.done =>
        /\ ContatosCalled <=> WarehouseMiss
        /\ WarehouseHit =>
             /\ pc = "check_email"
             /\ \E i \in 1..Len(lookup.rows) :
                  HasFirstHit(lookup.rows, i) /\ client_email = lookup.rows[i]
             /\ counts["contatos"] = 0

C12_Witness ==
    /\ pc = "check_email"
    /\ lookup.done
    /\ Len(lookup.rows) = 2
    /\ lookup.rows[1] = "bob@x.com" /\ lookup.rows[2] = "ana@x.com"
    /\ client_email = "bob@x.com"
    /\ ~ContatosCalled

\* C13: an error of the warehouse query of the customer lookup leaves
\* get_client_email as that error, without the ERP fallback, and ends the
\* invocation: no analytics query, no public-link request, no call of
\* send_email.
C13_WarehouseErrorPropagates ==
    (lookup.done /\ lookup.err # None) =>
        /\ pc = "done"
        /\ caught = lookup.err
        /\ ~ContatosCalled /\ counts["contatos"] = 0
        /\ ~LinkCalled
        /\ queried \cap AnalyticsQueries = {}
        /\ ~sg.called /\ sg.responses = << >>
        /\ Falsy(client_email)

C13_Witness ==
    /\ pc = "done"
    /\ lookup.done /\ lookup.err = "BadRequest"
    /\ caught = "BadRequest"
    /\ requested = {"gerar"}
    /\ ~sg.called

\* C14: with invocations of trigger_function interleaved in one process,
\* every ERP call of an invocation carries the token that this invocation
\* fetched, and its email client the key that it fetched.
C14_InvocationsIsolated ==
    \A i \in DOMAIN inv :
        /\ \A k \in 1..Len(inv[i].erp_calls) :
               inv[i].erp_calls[k].token = inv[i].erp_fetched
        /\ inv[i].sg_client_key # None => inv[i].sg_client_key = inv[i].sg_fetched
        /\ inv[i].sent_with # None => inv[i].sent_with = inv[i].sg_fetched

\* C15: no log entry of make_api_call, on the success path or on an error
\* path, holds what follows '?token=' in the request URL.
C15_NoCredentialInLogs ==
    \A k \in 1..Len(api.log) : api.log[k].text.after = None

\* A loyalty query answered without error, with a row whose value is not NULL.
ReturnedValue(res) ==
    /\ res.ok
    /\ res.rows # << >>
    /\ ~res.rows[1].isNone

\* Every stage succeeded: generation, email resolution, the public link,
\* the items query and the three loyalty queries.
AllStagesSucceeded ==
    /\ sg.called
    /\ gen_error = None
    /\ parts.returned.link.ok
    /\ Truthy(client_email)
    /\ parts.returned.items # << >>
    /\ ReturnedValue(parts.returned.checkins)
    /\ ReturnedValue(parts.returned.quarter)
    /\ ReturnedValue(parts.returned.lifetime)

EmailDataKeys ==
    { "client_email", "client_name", "dados_id", "items", "sub_total",
      "total_discount", "total_paid", "payment_method", "daily_checkins",
      "quarter_spend", "lifetime_spend", "nota_fiscal_url" }

\* C16: when every stage succeeds, the payload handed to send_email has
\* exactly the twelve fields, each with the value of its own stage: the
\* item rows in order and the summary columns of the items query, the value
\* each loyalty query returned, the inputs, and the link the ERP returned.
C16_PayloadIsFieldUnion ==
    AllStagesSucceeded =>
        LET rows == parts.returned.items
            last == rows[Len(rows)]
        IN  /\ DOMAIN email_data = EmailDataKeys
            /\ Len(email_data.items) = Len(rows)
            /\ \A i \in 1..Len(rows) :
                 /\ email_data.items[i].item_name = rows[i].item_name
                 /\ email_data.items[i].item_quantity = rows[i].item_quantity
                 /\ email_data.items[i].item_price = rows[i].item_price
                 /\ email_data.items[i].total_item_price = rows[i].total_item_price
            /\ email_data.sub_total = last.sub_total
            /\ email_data.total_discount = last.total_discount
            /\ email_data.total_paid = last.total_paid
            /\ email_data.payment_method = last.payment_method
            /\ email_data.daily_checkins = parts.returned.checkins.rows[1]
            /\ email_data.quarter_spend = parts.returned.quarter.rows[1]
            /\ email_data.lifetime_spend = parts.returned.lifetime.rows[1]
            /\ email_data.client_email = client_email
            /\ email_data.client_name = ClienteNome(payload)
            /\ email_data.dados_id = DadosId(payload)
            /\ email_data.nota_fiscal_url = parts.returned.link.value

C16_Witness ==
    /\ pc = "done"
    /\ AllStagesSucceeded
    /\ Len(parts.returned.items) = 2
    /\ parts.returned.items[1].item_name # parts.returned.items[2].item_name
    /\ email_data.lifetime_spend = Num(500)
    /\ email_data.quarter_spend = Num(100)
    /\ email_data.daily_checkins = Num(3)
    /\ Len(sg.responses) >= 1

\* The budget of external calls of one run: each function of the pipeline is
\* entered at most once, and one call of it makes at most this many requests.
CallBudget ==
    /\ \A k \in Counted : counts[k] <= 1
    /\ api.attempt <= 4 /\ Len(api.responses) <= 4 /\ Len(api.sleeps) <= 3
    /\ purchase.attempt <= 4 /\ Len(purchase.results) <= 4
    /\ Len(sg.responses) <= 3 /\ sg.retry_count <= 2

\* C17: every run of process_webhook_payload terminates, whatever the
\* services answer; each ERP endpoint is requested at most 4 times, the
\* items query runs at most 4 times, each loyalty query and the
\* customer-email query at most once, the email provider is called at most
\* 3 times.
C17_TerminatesWithinBudget == [](CallBudget) /\ <>(pc = "done")

C17_Witness ==
    /\ pc = "done"
    /\ counts["gerar"] = 1 /\ counts["contatos"] = 1 /\ counts["link"] = 1
    /\ counts["email"] = 1 /\ counts["get_purchase_details"] = 1
    /\ counts["checkins"] = 1 /\ counts["quarter"] = 1 /\ counts["lifetime"] = 1
    /\ Len(sg.responses) = 3

\* C18: in every payload handed to send_email, daily_checkins,
\* quarter_spend and lifetime_spend are numbers >= 0, never null, also when
\* a loyalty query answers without error and has no matching transactions
\* (no row, or one row whose SUM is NULL).
C18_LoyaltyFieldsNeverNull ==
    sg.called =>
        \A k \in {"daily_checkins", "quarter_spend", "lifetime_spend"} :
            /\ k \in DOMAIN email_data
            /\ ~email_data[k].isNone
            /\ email_data[k].v >= 0

\* C19: make_api_call returns a JSON document only when the response's
\* retorno.status_processamento is '3'; every other response, a missing or
\* unrecognized status included, ends in one of the gateway errors.
C19_ReturnsOnlyStatusThree ==
    (pc \in {"gerar_ret", "contatos_ret", "link_ret"} /\ apiResult.raised = None) =>
        apiResult.json.status = "3"

\* A provider submission that received a 2xx response.
Is2xx(resp) == ~resp.raised /\ resp.status_code >= 200 /\ resp.status_code < 300

\* C20: within one run at most one provider submission receives a 2xx
\* response; after it send_email neither calls the provider nor sleeps
\* again; and a submission is made only after the customer email was
\* resolved and the items query returned at least one row.
C20_AtMostOneDelivery ==
    /\ \A i \in 1..Len(sg.responses) :
         Is2xx(sg.responses[i]) =>
             /\ i = Len(sg.responses)
             /\ pc = "done"
             /\ Len(sg.sleeps) = i - 1
             /\ sg.retry_count = i - 1
    /\ Cardinality({ i \in 1..Len(sg.responses) : Is2xx(sg.responses[i]) }) <= 1
    /\ sg.responses # << >> =>
         /\ Truthy(client_email)
         /\ Len(parts.returned.items) >= 1
         /\ Len(email_data.items) >= 1

C20_Witness ==
    /\ pc = "done"
    /\ Len(sg.responses) = 2
    /\ ~Is2xx(sg.responses[1])
    /\ Is2xx(sg.responses[2])
    /\ sg.sleeps = << Units(60) >>

====
